---------------------------- MODULE Spec2Model ----------------------------
(***************************************************************************)
(* A model of smbprotocol's Connection (src/smbprotocol/connection.py):    *)
(* dialect negotiation, the locked send path, the unlocked receive path    *)
(* with its message pump, and the transport and server they talk to.       *)
(*                                                                         *)
(* Threads run the methods of one Connection object.  A step of the model  *)
(* is a run of statements of one method between two accesses to state      *)
(* another thread can see; CPython may switch threads between any two      *)
(* statements, so statements that touch shared state are separate steps.   *)
(*                                                                         *)
(* Python's None is the empty tuple, an optional value v is <<v>>.         *)
(***************************************************************************)
EXTENDS Integers, Sequences, FiniteSets, TLC

--------------------------------------------------------------------------
(* Bounds of the model *)

\* frames the application starts in one run with receivers (SMB1 negotiate
\* included)
MaxFrames == 3
\* frames the application starts in one run where only connect receives
MaxSends == 5
\* frames the application starts in one run with sessions on the receive side
MaxSecure == 2
\* STATUS_PENDING responses the server sends in one run
MaxPending == 1
\* malformed or unexpected inbound items the server sends in one run
MaxJunk == 1
MaxConnects == 2

\* the threads that call into the connection
Threads == {"t1", "t2"}

--------------------------------------------------------------------------
(* Wire constants (smbprotocol.constants, as the connection uses them) *)

SMB_2_0_2 == 514
SMB_2_1_0 == 528
SMB_2_WILDCARD == 767
SMB_3_0_0 == 768
SMB_3_0_2 == 770
SMB_3_1_1 == 785

STATUS_SUCCESS == 0
STATUS_PENDING == 259
\* 0xC0000022 as a 32-bit two's complement value
STATUS_ACCESS_DENIED == -1073741790

\* 0xFFFFFFFFFFFFFFFF as a 64-bit two's complement value
UNSOLICITED_ID == -1

\* the value TRANSFORM_HEADER.flags must carry
TRANSFORM_ENCRYPTED == 1

AES_128_CCM == 1
AES_128_GCM == 2

None == <<>>
Some(v) == <<v>>
Truthy(o) == o # None

--------------------------------------------------------------------------
VARIABLES
    dialect,               \* Connection.dialect: None or <<revision>>
    cipher_id,             \* Connection.cipher_id: None or <<cipher>>
    supports_file_leasing, \* None or <<the server's LEASING capability>>
    negotiated_dialects,   \* Connection.negotiated_dialects
    preauth_integrity_hash_value,
    session_table,         \* session_id -> Session
    sequence_window,       \* [low, high]
    outstanding_requests,  \* message_id -> reference to a Request object
    requests,              \* the Request objects, by reference (1..Len)
    lock,                  \* Connection.lock: None or <<holder>>
    message_buffer,        \* transport.message_buffer, the inbound queue
    sent,                  \* what transport.send was handed, in order
    server,                \* the peer: what it has answered so far, and how
    pc,                    \* each thread's position
    loc,                   \* each thread's local variables
    outcome,               \* how the latest finished call ended
    returned,              \* message_id -> times receive returned its response
    failed                 \* message ids receive raised a final error status for

vars == <<dialect, cipher_id, supports_file_leasing, negotiated_dialects, preauth_integrity_hash_value,
          session_table, sequence_window, outstanding_requests, requests, lock,
          message_buffer, sent, server, pc, loc, outcome, returned, failed>>

connVars == <<dialect, cipher_id, supports_file_leasing, negotiated_dialects,
              preauth_integrity_hash_value>>

--------------------------------------------------------------------------
(* Sessions: the collaborator's fields that send, _sign, _encrypt read *)

Session(id, sr, sk, ed, ek, dk) ==
    [session_id |-> id, signing_required |-> sr, signing_key |-> sk,
     encrypt_data |-> ed, encryption_key |-> ek, decryption_key |-> dk]

\* a signing session, an encrypting session (that also requires signing), and
\* the two before their keys exist
SigningSession == Session(1, TRUE, Some(11), FALSE, None, None)
EncryptingSession == Session(2, TRUE, Some(12), TRUE, Some(22), Some(32))
KeylessEncryptingSession == Session(3, TRUE, Some(13), TRUE, None, None)
KeylessSigningSession == Session(4, TRUE, None, FALSE, None, None)
PlainSession == Session(5, FALSE, Some(15), FALSE, Some(25), Some(35))

Sessions == {SigningSession, EncryptingSession, KeylessEncryptingSession,
             KeylessSigningSession, PlainSession}

SessionOf(id) == CHOOSE s \in Sessions : s.session_id = id

--------------------------------------------------------------------------
(* Frames.  A header carries the fields the connection reads or writes;    *)
(* the body (header['data']) is opaque, except a NEGOTIATE body.           *)

Header(variant, command, session_id) ==
    [type |-> "header", variant |-> variant, command |-> command,
     session_id |-> session_id, message_id |-> 0, status |-> STATUS_SUCCESS,
     signed |-> FALSE, signature |-> None, data |-> None]

\* _generate_signature: the MAC of the message packed with a zeroed signature
\* field, under the session's signing key; AES-CMAC from 3.0.0, else the first
\* 16 bytes of HMAC-SHA256.  The MAC is symbolic: algorithm, key, content.
GenerateSignature(message, session, d) ==
    <<IF d >= SMB_3_0_0 THEN "AES-CMAC" ELSE "HMAC-SHA256",
      session.signing_key,
      [message EXCEPT !.signature = None]>>

\* _sign: set SMB2_FLAGS_SIGNED, then compute and store the signature
Sign(message, session, d) ==
    LET flagged == [message EXCEPT !.signed = TRUE]
    IN  [flagged EXCEPT !.signature = GenerateSignature(flagged, session, d)]

\* the cipher _encrypt and _decrypt pick: the negotiated one from 3.1.1, else CCM
CipherFor(d, cid) ==
    IF d >= SMB_3_1_1 THEN cid ELSE Some(AES_128_CCM)

\* _encrypt: the TRANSFORM_HEADER around the AEAD ciphertext of the message.
\* The ciphertext is symbolic: cipher, key and plaintext; the random nonce is
\* left out.
Encrypt(message, session, d, cid) ==
    [type |-> "transform", flags |-> TRANSFORM_ENCRYPTED,
     session_id |-> message.session_id,
     cipher |-> CipherFor(d, cid), key |-> session.encryption_key,
     tag_ok |-> TRUE, data |-> message]

\* cipher(encryption_key) with cipher None is a TypeError
EncryptRaises(session, d, cid) ==
    CipherFor(d, cid) = None

WillEncrypt(session) ==
    /\ session # None
    /\ session[1].encrypt_data
    /\ Truthy(session[1].encryption_key)

WillSign(session) ==
    /\ ~WillEncrypt(session)
    /\ session # None
    /\ session[1].signing_required
    /\ Truthy(session[1].signing_key)

FrameSignThenEncryptMut(header, session, d, cid) ==
    IF WillEncrypt(session)
    THEN Encrypt(Sign(header, session[1], d), session[1], d, cid)
    ELSE IF WillSign(session) THEN Sign(header, session[1], d) ELSE header

\* send, lines 227-230: encrypt, or else sign, or else leave as is
Frame(header, session, d, cid) ==
    IF WillEncrypt(session) THEN Encrypt(header, session[1], d, cid)
    ELSE IF WillSign(session) THEN Sign(header, session[1], d)
    ELSE header

IncrementHighOnlyMut(sw, credit_charge) ==
    [low |-> sw.low, high |-> sw.high + credit_charge]

\* _increment_sequence_windows
IncrementSequenceWindows(sw, credit_charge) ==
    [low |-> sw.high + credit_charge, high |-> sw.high + credit_charge]

AllocateAlwaysMut(command) ==
    TRUE

\* send, line 216: every command but SMB2_CANCEL takes a message id
Allocates(command) ==
    command # "SMB2_CANCEL"

--------------------------------------------------------------------------
(* Threads *)

NoLocals ==
    [op |-> "", ctx |-> "", pin |-> None, command |-> "", target |-> 0,
     session |-> None, header |-> None, message_id |-> 0, request |-> 0,
     response |-> None, message |-> None, routed |-> 0, high_value |-> 0]

NoOutcome ==
    [op |-> "", kind |-> "none", exc |-> "", message_id |-> 0,
     status |-> STATUS_SUCCESS]

\* the call the thread's caller sees: connect when send or receive run in it
OpOf(locals) == IF locals.ctx = "connect" THEN "connect" ELSE locals.op

Op(t) == OpOf(loc[t])

\* an exception leaves the method; nothing is cleaned up on the way
RaiseFrom(t, op, message_id, exc, status) ==
    /\ pc' = [pc EXCEPT ![t] = "idle"]
    /\ loc' = [loc EXCEPT ![t] = NoLocals]
    /\ outcome' = [op |-> op, kind |-> "raise", exc |-> exc,
                   message_id |-> message_id, status |-> status]

Raise(t, exc, status) ==
    RaiseFrom(t, Op(t), loc[t].message_id, exc, status)

Return(t, message_id, status) ==
    /\ pc' = [pc EXCEPT ![t] = "idle"]
    /\ loc' = [loc EXCEPT ![t] = NoLocals]
    /\ outcome' = [op |-> Op(t), kind |-> "return", exc |-> "",
                   message_id |-> message_id, status |-> status]

Goto(t, label, locals) ==
    /\ pc' = [pc EXCEPT ![t] = label]
    /\ loc' = [loc EXCEPT ![t] = locals]
    /\ UNCHANGED outcome

SendPcs == {"send_lock", "send_transport"}

\* frames handed to the transport, or about to be
FramesStarted == Len(sent) + Cardinality({t \in Threads : pc[t] \in SendPcs})

--------------------------------------------------------------------------
(* Construction: Connection.__init__ *)

Init ==
    /\ dialect = None
    /\ cipher_id = None
    /\ supports_file_leasing = None
    /\ negotiated_dialects = <<>>
    /\ preauth_integrity_hash_value = <<>>
    /\ session_table = <<>>
    /\ sequence_window = [low |-> 0, high |-> 0]
    /\ outstanding_requests = <<>>
    /\ requests = <<>>
    /\ lock = None
    /\ message_buffer = <<>>
    /\ sent = <<>>
    /\ server = [smb1 |-> 0, final |-> <<>>, pended |-> {}, pending |-> 0, junk |-> 0]
    /\ pc = [t \in Threads |-> "idle"]
    /\ loc = [t \in Threads |-> NoLocals]
    /\ outcome = NoOutcome
    /\ returned = <<>>
    /\ failed = {}

--------------------------------------------------------------------------
(* send *)

\* lines 196-209: the header; self.dialect < SMB_3_0_0 is a TypeError before
\* any dialect is negotiated
SendHeader(message, command, session) ==
    [Header(IF command = "SMB2_NEGOTIATE" \/ dialect[1] < SMB_3_0_0
            THEN "SMB2" ELSE "SMB3",
            command,
            IF session = None THEN 0 ELSE session[1].session_id)
     EXCEPT !.data = message]

SendEnter(t, ctx, message, command, session, target) ==
    IF command # "SMB2_NEGOTIATE" /\ dialect = None
    THEN RaiseFrom(t, IF ctx = "connect" THEN "connect" ELSE "send", 0,
                   "TypeError", 0)
    ELSE Goto(t, "send_lock",
              [loc[t] EXCEPT !.op = "send", !.ctx = ctx, !.command = command,
                             !.session = session, !.target = target,
                             !.header = Some(SendHeader(message, command, session))])

\* the application calls send; target is the request a cancel is meant for,
\* which send has no parameter to take
SendCall(t, command, session, target) ==
    /\ pc[t] = "idle"
    /\ SendEnter(t, "", None, command, session, target)
    /\ UNCHANGED <<connVars, session_table, sequence_window, outstanding_requests,
                   requests, lock, message_buffer, sent, server, returned, failed>>

\* lines 213-233: acquire the lock, take the message id, frame the message,
\* store the Request under the message id.  Until the lock is released no
\* other sender runs, and nothing else reads the sequence window, so the
\* statements are one step.  A failure in _encrypt leaves with the lock held.
SendLock(t) ==
    /\ pc[t] = "send_lock"
    /\ lock = None
    /\ lock' = Some(t)
    /\ LET command == loc[t].command
           message_id == IF Allocates(command) THEN sequence_window.low ELSE 0
           header == [loc[t].header[1] EXCEPT !.message_id = message_id]
           frame == Frame(header, loc[t].session, dialect[1], cipher_id)
       IN  /\ sequence_window' =
                IF Allocates(command)
                THEN IncrementSequenceWindows(sequence_window, 1)
                ELSE sequence_window
           /\ IF WillEncrypt(loc[t].session)
                 /\ EncryptRaises(loc[t].session[1], dialect[1], cipher_id)
              THEN /\ Raise(t, "TypeError", 0)
                   /\ UNCHANGED <<requests, outstanding_requests>>
              ELSE /\ requests' = Append(requests, [message |-> frame, response |-> None])
                   /\ outstanding_requests' =
                         (message_id :> (Len(requests) + 1)) @@ outstanding_requests
                   /\ Goto(t, "send_transport",
                           [loc[t] EXCEPT !.message_id = message_id,
                                          !.header = Some(frame)])
    /\ UNCHANGED <<connVars, session_table, message_buffer, sent, server, returned, failed>>

\* lines 234-237: transport.send, which a failing socket makes raise with the
\* lock held; else release the lock and return the header
SendTransport(t, ok) ==
    /\ pc[t] = "send_transport"
    /\ IF ok
       THEN /\ sent' = Append(sent, loc[t].header[1])
            /\ lock' = None
            /\ IF loc[t].ctx = "connect"
               THEN Goto(t, "neg_sent", loc[t])
               ELSE Return(t, loc[t].message_id, STATUS_SUCCESS)
       ELSE /\ UNCHANGED <<sent, lock>>
            /\ Raise(t, "TransportError", 0)
    /\ UNCHANGED <<connVars, session_table, sequence_window, outstanding_requests,
                   requests, message_buffer, server, returned, failed>>

--------------------------------------------------------------------------
(* The receive pump: _flush_message_buffer with _decrypt and _verify *)

InTable(message_id) == message_id \in DOMAIN outstanding_requests

\* _decrypt's failure, "" when it succeeds.  AEAD decryption succeeds when
\* the ciphertext was made with the cipher and key it is opened with and
\* the tag is intact.
DecryptError(message) ==
    IF message.flags # TRANSFORM_ENCRYPTED THEN "InvalidTransformFlags"
    ELSE IF message.session_id \notin DOMAIN session_table THEN "SessionNotFound"
    ELSE IF CipherFor(dialect[1], cipher_id) = None THEN "TypeError"
    ELSE IF session_table[message.session_id].decryption_key = None THEN "TypeError"
    ELSE IF \/ message.cipher # CipherFor(dialect[1], cipher_id)
            \/ message.key # session_table[message.session_id].decryption_key
            \/ ~message.tag_ok
         THEN "InvalidTag"
    ELSE ""

\* _decrypt's result: the plaintext, unpacked as an SMB2PacketHeader
Decrypt(message) ==
    [message.data EXCEPT !.variant = "SMB2"]

VerifyNothingMut(message) ==
    ""

\* _verify's failure, "" when the message passes (verify_session is False
\* in the pump's call)
VerifyError(message) ==
    IF message.message_id = UNSOLICITED_ID THEN ""
    ELSE IF ~message.signed THEN ""
    ELSE IF message.command = "SMB2_SESSION_SETUP" THEN ""
    ELSE IF message.session_id \notin DOMAIN session_table THEN "SessionNotFound"
    ELSE IF message.signature #
            GenerateSignature(message, session_table[message.session_id], dialect[1])
         THEN "SignatureMismatch"
    ELSE ""

PumpOutcomeAdoptMut(item) ==
    IF item.type # "header" THEN [exc |-> "InvalidHeader", message |-> None]
    ELSE IF InTable(item.message_id) THEN [exc |-> "", message |-> Some(item)]
    ELSE IF DOMAIN outstanding_requests = {}
         THEN [exc |-> "UnknownMessageId", message |-> None]
    ELSE [exc |-> "",
          message |-> Some([item EXCEPT !.message_id =
                               CHOOSE m \in DOMAIN outstanding_requests : TRUE])]

\* lines 293-304 for one dequeued item: the failure ("" for none) and the
\* message to route
PumpOutcome(item) ==
    IF item.type = "bytes" THEN [exc |-> "InvalidHeader", message |-> None]
    ELSE IF item.type = "transform" /\ DecryptError(item) # ""
         THEN [exc |-> DecryptError(item), message |-> None]
    ELSE LET message == IF item.type = "transform" THEN Decrypt(item) ELSE item
         IN  IF VerifyError(message) # ""
             THEN [exc |-> VerifyError(message), message |-> None]
             ELSE IF ~InTable(message.message_id)
                  THEN [exc |-> "UnknownMessageId", message |-> None]
                  ELSE [exc |-> "", message |-> Some(message)]

\* lines 285-304: take the next item off the queue, unwrap and check it,
\* find its request
PumpGet(t) ==
    /\ pc[t] = "pump_get"
    /\ message_buffer # <<>>
    /\ message_buffer' = Tail(message_buffer)
    /\ LET out == PumpOutcome(Head(message_buffer))
       IN  IF out.exc # ""
           THEN Raise(t, out.exc, 0)
           ELSE Goto(t, "pump_store",
                     [loc[t] EXCEPT
                        !.message = out.message,
                        !.routed = outstanding_requests[out.message[1].message_id]])
    /\ UNCHANGED <<connVars, session_table, sequence_window, outstanding_requests,
                   requests, lock, sent, server, returned, failed>>

\* line 305: request.response = message
PumpStore(t) ==
    /\ pc[t] = "pump_store"
    /\ requests' = [requests EXCEPT ![loc[t].routed].response = loc[t].message]
    /\ Goto(t, "pump_reinsert", loc[t])
    /\ UNCHANGED <<connVars, session_table, sequence_window, outstanding_requests,
                   lock, message_buffer, sent, server, returned, failed>>

\* line 306: self.outstanding_requests[message_id] = request, and the loop
PumpReinsert(t) ==
    /\ pc[t] = "pump_reinsert"
    /\ outstanding_requests' =
          (loc[t].message[1].message_id :> loc[t].routed) @@ outstanding_requests
    /\ Goto(t, "pump_get", [loc[t] EXCEPT !.message = None, !.routed = 0])
    /\ UNCHANGED <<connVars, session_table, sequence_window, requests, lock,
                   message_buffer, sent, server, returned, failed>>

--------------------------------------------------------------------------
(* receive *)

\* lines 260-267 up to the first write: where receive goes with a response
WithResponse(t, locals, response) ==
    LET status == response[1].status
    IN  IF status = STATUS_PENDING
        THEN /\ Goto(t, "recv_reset", [locals EXCEPT !.response = response])
             /\ UNCHANGED failed
        ELSE IF status # STATUS_SUCCESS
             THEN /\ RaiseFrom(t, OpOf(locals), locals.message_id,
                               "SMBResponseException", status)
                  /\ failed' = failed \cup {locals.message_id}
             ELSE /\ Goto(t, "recv_del", [locals EXCEPT !.response = response])
                  /\ UNCHANGED failed

\* lines 244-258 on entry: the request, and its response if one is attached
RecvEnter(t, ctx, message_id) ==
    IF ~InTable(message_id)
    THEN /\ RaiseFrom(t, IF ctx = "connect" THEN "connect" ELSE "receive",
                      message_id, "NoRequest", 0)
         /\ UNCHANGED failed
    ELSE LET request == outstanding_requests[message_id]
             entered == [loc[t] EXCEPT !.op = "receive", !.ctx = ctx,
                                       !.message_id = message_id,
                                       !.request = request]
         IN  IF Truthy(requests[request].response)
             THEN WithResponse(t, entered, requests[request].response)
             ELSE /\ Goto(t, "pump_get", entered)
                  /\ UNCHANGED failed

\* the application calls receive(message_id)
RecvCall(t, message_id) ==
    /\ pc[t] = "idle"
    /\ RecvEnter(t, "", message_id)
    /\ UNCHANGED <<connVars, session_table, sequence_window, outstanding_requests,
                   requests, lock, message_buffer, sent, server, returned>>

\* lines 286-289 and 257-258: the queue is empty, the pump returns, receive
\* looks at its request again
PumpEmpty(t) ==
    /\ pc[t] = "pump_get"
    /\ message_buffer = <<>>
    /\ IF ~InTable(loc[t].message_id)
       THEN /\ Raise(t, "KeyError", 0)
            /\ UNCHANGED failed
       ELSE LET request == outstanding_requests[loc[t].message_id]
            IN  IF Truthy(requests[request].response)
                THEN WithResponse(t, [loc[t] EXCEPT !.request = request],
                                  requests[request].response)
                ELSE /\ Goto(t, "pump_get", [loc[t] EXCEPT !.request = request])
                     /\ UNCHANGED failed
    /\ UNCHANGED <<connVars, session_table, sequence_window, outstanding_requests,
                   requests, lock, message_buffer, sent, server, returned>>

\* line 263: request.response = None
RecvReset(t) ==
    /\ pc[t] = "recv_reset"
    /\ requests' = [requests EXCEPT ![loc[t].request].response = None]
    /\ Goto(t, "recv_reinsert", loc[t])
    /\ UNCHANGED <<connVars, session_table, sequence_window, outstanding_requests,
                   lock, message_buffer, sent, server, returned, failed>>

\* lines 264-267: the request goes back into the table, and the pending
\* status is raised as an SMBResponseException
RecvReinsert(t) ==
    /\ pc[t] = "recv_reinsert"
    /\ outstanding_requests' =
          (loc[t].message_id :> loc[t].request) @@ outstanding_requests
    /\ Raise(t, "SMBResponseException", STATUS_PENDING)
    /\ UNCHANGED <<connVars, session_table, sequence_window, requests, lock,
                   message_buffer, sent, server, returned, failed>>

Without(f, k) == [x \in DOMAIN f \ {k} |-> f[x]]

Count(f, k) == IF k \in DOMAIN f THEN f[k] ELSE 0

\* lines 271-273: del self.outstanding_requests[message_id]; return response
RecvDel(t) ==
    /\ pc[t] = "recv_del"
    /\ IF ~InTable(loc[t].message_id)
       THEN /\ Raise(t, "KeyError", 0)
            /\ UNCHANGED <<outstanding_requests, returned>>
       ELSE /\ outstanding_requests' = Without(outstanding_requests, loc[t].message_id)
            /\ returned' = (loc[t].message_id :> (Count(returned, loc[t].message_id) + 1))
                              @@ returned
            /\ IF loc[t].ctx = "connect"
               THEN Goto(t, "neg_received", loc[t])
               ELSE Return(t, loc[t].message_id, loc[t].response[1].status)
    /\ UNCHANGED <<connVars, session_table, sequence_window, requests, lock,
                   message_buffer, sent, server, failed>>

--------------------------------------------------------------------------
(* connect *)

AllDialects == <<SMB_2_0_2, SMB_2_1_0, SMB_3_0_0, SMB_3_0_2, SMB_3_1_1>>

\* _send_smb1_negotiate, lines 442-444: the dialect strings offered
Smb1Dialects(pin) ==
    IF pin # Some(SMB_2_0_2) THEN <<"SMB 2.002", "SMB 2.???">> ELSE <<"SMB 2.002">>

\* _send_smb2_negotiate, lines 469-488: the request and the dialects offered
Smb2NegotiateRequest ==
    IF dialect = None
    THEN [request |-> "SMB3NegotiateRequest", dialects |-> AllDialects]
    ELSE [request |-> IF dialect[1] >= SMB_3_1_1 THEN "SMB3NegotiateRequest"
                      ELSE "SMB2NegotiateRequest",
          dialects |-> <<dialect[1]>>]

\* lines 125 and 434-450: open the transport, hand it the SMB1 NEGOTIATE
ConnectCall(t, pin, ok) ==
    /\ pc[t] = "idle"
    /\ IF ok
       THEN /\ sent' = Append(sent, [type |-> "smb1", dialects |-> Smb1Dialects(pin)])
            /\ Goto(t, "smb1_sent", [NoLocals EXCEPT !.op = "connect",
                                                     !.ctx = "connect", !.pin = pin])
       ELSE /\ RaiseFrom(t, "connect", 0, "TransportError", 0)
            /\ UNCHANGED sent
    /\ UNCHANGED <<connVars, session_table, sequence_window, outstanding_requests,
                   requests, lock, message_buffer, server, returned, failed>>

\* line 452 calls _increment_sequence_windows(1) with the lock not taken, so
\* its three statements are three steps.  Line 552: read high
ConnectReadHigh(t) ==
    /\ pc[t] = "smb1_sent"
    /\ Goto(t, "smb1_low", [loc[t] EXCEPT !.high_value = sequence_window.high])
    /\ UNCHANGED <<connVars, session_table, sequence_window, outstanding_requests,
                   requests, lock, message_buffer, sent, server, returned, failed>>

\* line 553: write low
ConnectWriteLow(t) ==
    /\ pc[t] = "smb1_low"
    /\ sequence_window' =
          [sequence_window EXCEPT
             !.low = IncrementSequenceWindows([low |-> 0, high |-> loc[t].high_value], 1).low]
    /\ Goto(t, "smb1_high", loc[t])
    /\ UNCHANGED <<connVars, session_table, outstanding_requests, requests, lock,
                   message_buffer, sent, server, returned, failed>>

\* line 554: write high
ConnectWriteHigh(t) ==
    /\ pc[t] = "smb1_high"
    /\ sequence_window' =
          [sequence_window EXCEPT
             !.high = IncrementSequenceWindows([low |-> 0, high |-> loc[t].high_value], 1).high]
    /\ Goto(t, "smb1_wait", loc[t])
    /\ UNCHANGED <<connVars, session_table, outstanding_requests, requests, lock,
                   message_buffer, sent, server, returned, failed>>

IsNegotiateResponse(message) ==
    /\ message.type = "header"
    /\ message.data # None
    /\ "dialect_revision" \in DOMAIN message.data[1]

\* lines 453-464 and 131-133: block on the queue, unpack what comes as an
\* SMB2 NEGOTIATE response; on the wildcard go on to _send_smb2_negotiate
\* (lines 467-538), which ends in self.send
ConnectSmb1Response(t) ==
    /\ pc[t] = "smb1_wait"
    /\ message_buffer # <<>>
    /\ message_buffer' = Tail(message_buffer)
    /\ LET response == Head(message_buffer)
       IN  IF ~IsNegotiateResponse(response)
           THEN /\ Raise(t, "UnpackError", 0)
                /\ UNCHANGED negotiated_dialects
           ELSE IF response.data[1].dialect_revision = SMB_2_WILDCARD
                THEN /\ negotiated_dialects' = Smb2NegotiateRequest.dialects
                     /\ SendEnter(t, "connect", Some(Smb2NegotiateRequest),
                                  "SMB2_NEGOTIATE", None, 0)
                ELSE /\ Goto(t, "populate", [loc[t] EXCEPT !.response = Some(response)])
                     /\ UNCHANGED negotiated_dialects
    /\ UNCHANGED <<dialect, cipher_id, supports_file_leasing, preauth_integrity_hash_value, session_table,
                   sequence_window, outstanding_requests, requests, lock, sent,
                   server, returned, failed>>

\* lines 539-541: remember the request, then self.receive(its message id)
NegSent(t) ==
    /\ pc[t] = "neg_sent"
    /\ preauth_integrity_hash_value' =
          Append(preauth_integrity_hash_value, loc[t].header[1])
    /\ RecvEnter(t, "connect", loc[t].message_id)
    /\ UNCHANGED <<dialect, cipher_id, supports_file_leasing, negotiated_dialects, session_table,
                   sequence_window, outstanding_requests, requests, lock,
                   message_buffer, sent, server, returned>>

\* lines 544-549: remember the response, unpack its body
NegReceived(t) ==
    /\ pc[t] = "neg_received"
    /\ preauth_integrity_hash_value' =
          Append(preauth_integrity_hash_value, loc[t].response[1])
    /\ IF ~IsNegotiateResponse(loc[t].response[1])
       THEN Raise(t, "UnpackError", 0)
       ELSE Goto(t, "populate", loc[t])
    /\ UNCHANGED <<dialect, cipher_id, supports_file_leasing, negotiated_dialects, session_table,
                   sequence_window, outstanding_requests, requests, lock,
                   message_buffer, sent, server, returned, failed>>

\* lines 135-185: the connection's fields, from the response
Populate(t) ==
    /\ pc[t] = "populate"
    /\ LET smb_response == loc[t].response[1].data[1]
       IN  /\ dialect' = Some(smb_response.dialect_revision)
           /\ cipher_id' = IF /\ smb_response.dialect_revision >= SMB_3_1_1
                              /\ smb_response.cipher # None
                           THEN smb_response.cipher
                           ELSE cipher_id
           /\ supports_file_leasing' =
                 IF smb_response.dialect_revision >= SMB_2_1_0
                 THEN Some(smb_response.leasing)
                 ELSE supports_file_leasing
    /\ Return(t, 0, STATUS_SUCCESS)
    /\ UNCHANGED <<negotiated_dialects, preauth_integrity_hash_value, session_table,
                   sequence_window, outstanding_requests, requests, lock,
                   message_buffer, sent, server, returned, failed>>

--------------------------------------------------------------------------
(* The server, through the transport's reader: what lands in the queue *)

\* a frame's SMB2 header: the frame, or what a TRANSFORM_HEADER wraps
Inner(frame) == IF frame.type = "transform" THEN frame.data ELSE frame

Smb2Frames == {i \in 1..Len(sent) : sent[i].type # "smb1"}

Smb1Frames == {i \in 1..Len(sent) : sent[i].type = "smb1"}

NegotiateResponse(message_id, revision, cipher) ==
    [Header("SMB2", "SMB2_NEGOTIATE", 0) EXCEPT
       !.message_id = message_id,
       !.data = Some([dialect_revision |-> revision, cipher |-> cipher,
                      leasing |-> TRUE])]

Response(request, status) ==
    [Header("SMB2", request.command, request.session_id) EXCEPT
       !.message_id = request.message_id, !.status = status]

\* the n-th SMB1 NEGOTIATE on the wire
Smb1Frame(n) ==
    sent[CHOOSE i \in Smb1Frames : Cardinality({j \in Smb1Frames : j <= i}) = n]

\* the answer to an SMB1 NEGOTIATE: an SMB2 NEGOTIATE response, message id 0,
\* with the wildcard only when "SMB 2.???" was offered
ServerSmb1Reply(revision) ==
    /\ server.smb1 < Cardinality(Smb1Frames)
    /\ revision = SMB_2_WILDCARD
       => \E k \in DOMAIN Smb1Frame(server.smb1 + 1).dialects :
             Smb1Frame(server.smb1 + 1).dialects[k] = "SMB 2.???"
    /\ server' = [server EXCEPT !.smb1 = @ + 1]
    /\ message_buffer' = Append(message_buffer, NegotiateResponse(0, revision, None))
    /\ UNCHANGED <<connVars, session_table, sequence_window, outstanding_requests,
                   requests, lock, sent, pc, loc, outcome, returned, failed>>

\* the answer to an SMB2 NEGOTIATE
ServerNegotiateReply(i, revision, cipher) ==
    /\ i \in Smb2Frames
    /\ Inner(sent[i]).command = "SMB2_NEGOTIATE"
    /\ Inner(sent[i]).message_id \notin DOMAIN server.final
    /\ server' = [server EXCEPT
                     !.final = (Inner(sent[i]).message_id :> STATUS_SUCCESS) @@ @]
    /\ message_buffer' =
          Append(message_buffer,
                 NegotiateResponse(Inner(sent[i]).message_id, revision, cipher))
    /\ UNCHANGED <<connVars, session_table, sequence_window, outstanding_requests,
                   requests, lock, sent, pc, loc, outcome, returned, failed>>

\* the final answer to a request (a cancel has none)
ServerRespond(i, status) ==
    /\ i \in Smb2Frames
    /\ Inner(sent[i]).command \notin {"SMB2_NEGOTIATE", "SMB2_CANCEL"}
    /\ Inner(sent[i]).message_id \notin DOMAIN server.final
    /\ server' = [server EXCEPT !.final = (Inner(sent[i]).message_id :> status) @@ @]
    /\ message_buffer' = Append(message_buffer, Response(Inner(sent[i]), status))
    /\ UNCHANGED <<connVars, session_table, sequence_window, outstanding_requests,
                   requests, lock, sent, pc, loc, outcome, returned, failed>>

\* an interim STATUS_PENDING answer to a request not yet finally answered
ServerPending(i) ==
    /\ i \in Smb2Frames
    /\ Inner(sent[i]).command \notin {"SMB2_NEGOTIATE", "SMB2_CANCEL"}
    /\ Inner(sent[i]).message_id \notin DOMAIN server.final
    /\ server.pending < MaxPending
    /\ server' = [server EXCEPT !.pending = @ + 1,
                                 !.pended = @ \cup {Inner(sent[i]).message_id}]
    /\ message_buffer' = Append(message_buffer, Response(Inner(sent[i]), STATUS_PENDING))
    /\ UNCHANGED <<connVars, session_table, sequence_window, outstanding_requests,
                   requests, lock, sent, pc, loc, outcome, returned, failed>>

\* a message id no request was sent under
StrayId == MaxFrames + 100

\* items the pump rejects: raw bytes, a stray or unsolicited message id, a
\* TRANSFORM_HEADER with other flags or of an unknown session, a signed
\* message of an unknown session
Junk ==
    {[type |-> "bytes"],
     [Header("SMB2", "SMB2_READ", 0) EXCEPT !.message_id = StrayId],
     [Header("SMB2", "SMB2_READ", 0) EXCEPT !.message_id = UNSOLICITED_ID],
     [type |-> "transform", flags |-> 0, session_id |-> 2,
      cipher |-> Some(AES_128_CCM), key |-> Some(32), tag_ok |-> TRUE,
      data |-> Header("SMB2", "SMB2_READ", 2)],
     [type |-> "transform", flags |-> TRANSFORM_ENCRYPTED, session_id |-> 2,
      cipher |-> Some(AES_128_CCM), key |-> Some(32), tag_ok |-> TRUE,
      data |-> Header("SMB2", "SMB2_READ", 2)],
     [Header("SMB2", "SMB2_READ", 1) EXCEPT !.message_id = StrayId, !.signed = TRUE]}

ServerJunk(item) ==
    /\ server.junk < MaxJunk
    /\ server' = [server EXCEPT !.junk = @ + 1]
    /\ message_buffer' = Append(message_buffer, item)
    /\ UNCHANGED <<connVars, session_table, sequence_window, outstanding_requests,
                   requests, lock, sent, pc, loc, outcome, returned, failed>>

\* what the server makes of a response for a session: left as it is, signed
\* with the session's signing key, signed with another key, encrypted for
\* the session, or encrypted around a header signed with another key
Forms == {"plain", "signed", "forged", "sealed", "sealed_forged"}

Forged(message) ==
    LET flagged == [message EXCEPT !.signed = TRUE]
    IN  [flagged EXCEPT !.signature = <<"forged", None, flagged>>]

Sealed(message, session) ==
    [type |-> "transform", flags |-> TRANSFORM_ENCRYPTED,
     session_id |-> message.session_id,
     cipher |-> CipherFor(dialect[1], cipher_id), key |-> session.decryption_key,
     tag_ok |-> TRUE, data |-> message]

Secured(message, session, form) ==
    CASE form = "plain" -> message
      [] form = "signed" -> Sign(message, session, dialect[1])
      [] form = "forged" -> Forged(message)
      [] form = "sealed" -> Sealed(message, session)
      [] form = "sealed_forged" -> Sealed(Forged(message), session)

\* the final answer to a request sent with a session
ServerSecure(i, form) ==
    /\ i \in Smb2Frames
    /\ Inner(sent[i]).command \notin {"SMB2_NEGOTIATE", "SMB2_CANCEL"}
    /\ Inner(sent[i]).session_id # 0
    /\ Inner(sent[i]).message_id \notin DOMAIN server.final
    /\ server' = [server EXCEPT
                     !.final = (Inner(sent[i]).message_id :> STATUS_SUCCESS) @@ @]
    /\ message_buffer' =
          Append(message_buffer,
                 Secured(Response(Inner(sent[i]), STATUS_SUCCESS),
                         SessionOf(Inner(sent[i]).session_id), form))
    /\ UNCHANGED <<connVars, session_table, sequence_window, outstanding_requests,
                   requests, lock, sent, pc, loc, outcome, returned, failed>>

--------------------------------------------------------------------------
(* The application: connect once, then send and receive from any thread *)

\* session setup puts the session into the connection's session_table
RegisterSession(session) ==
    /\ session.session_id \notin DOMAIN session_table
    /\ session_table' = (session.session_id :> session) @@ session_table
    /\ UNCHANGED <<connVars, sequence_window, outstanding_requests, requests, lock,
                   message_buffer, sent, server, pc, loc, outcome, returned, failed>>

SetupSend(t, sessions, limit) ==
    \E session \in sessions :
        /\ dialect # None
        /\ FramesStarted < limit
        /\ SendCall(t, "SMB2_SESSION_SETUP", session, 0)

Fresh == dialect = None /\ sent = <<>> /\ \A t \in Threads : pc[t] = "idle"

Operational == dialect # None

SessionArgs == {None} \cup {Some(s) : s \in Sessions}

\* the message ids send has returned to the application
MessageIds == {Inner(sent[i]).message_id : i \in Smb2Frames}

\* the requests the application may want cancelled: those still in the table
CancelTargets ==
    {m \in DOMAIN outstanding_requests :
        Inner(requests[outstanding_requests[m]].message).command # "SMB2_CANCEL"}

Connect(t) ==
    \E ok \in BOOLEAN : Fresh /\ ConnectCall(t, None, ok)

\* the dialects an application pins
Pins == {None, Some(SMB_2_0_2), Some(SMB_3_0_2)}

InConnect(t) == OpOf(loc[t]) = "connect"

\* connect has no condition on the connection's state (lines 114-128): the
\* application calls it on a fresh connection or again, with a pinned
\* dialect or none, one call at a time
ConnectAny(t, limit) ==
    \E pin \in Pins, ok \in BOOLEAN :
        /\ Cardinality(Smb1Frames) < limit
        /\ \A u \in Threads : ~InConnect(u)
        /\ ConnectCall(t, pin, ok)

Send(t, sessions, limit) ==
    \E session \in sessions :
        /\ Operational
        /\ FramesStarted < limit
        /\ SendCall(t, "SMB2_READ", session, 0)

Cancel(t, sessions, limit) ==
    \E session \in sessions, target \in CancelTargets :
        /\ Operational
        /\ FramesStarted < limit
        /\ SendCall(t, "SMB2_CANCEL", session, target)

\* a response is awaited by one thread at a time
Awaited == {loc[t].message_id : t \in {u \in Threads : loc[u].op = "receive"}}

Receive(t) ==
    \E message_id \in MessageIds \ Awaited :
        Operational /\ RecvCall(t, message_id)

ServerNegotiates(ciphers) ==
    \/ \E revision \in {SMB_2_0_2, SMB_2_WILDCARD} : ServerSmb1Reply(revision)
    \/ \E i \in 1..Len(sent), cipher \in ciphers :
          ServerNegotiateReply(i, SMB_3_1_1, cipher)

ServerAnswers ==
    \/ \E i \in 1..Len(sent), status \in {STATUS_SUCCESS, STATUS_ACCESS_DENIED} :
          ServerRespond(i, status)
    \/ \E i \in 1..Len(sent) : ServerPending(i)
    \/ \E item \in Junk : ServerJunk(item)

\* the steps of connect after the call
Negotiating(t) ==
    \/ ConnectReadHigh(t)
    \/ ConnectWriteLow(t)
    \/ ConnectWriteHigh(t)
    \/ ConnectSmb1Response(t)
    \/ NegSent(t)
    \/ NegReceived(t)
    \/ Populate(t)

\* connect, with the send and the receive it makes
Connecting(t) ==
    \/ Connect(t)
    \/ Negotiating(t)

Sending(t) ==
    \/ SendLock(t)
    \/ \E ok \in BOOLEAN : SendTransport(t, ok)

Pumping(t) ==
    \/ PumpGet(t)
    \/ PumpStore(t)
    \/ PumpReinsert(t)
    \/ PumpEmpty(t)
    \/ RecvDel(t)

Resetting(t) ==
    \/ RecvReset(t)
    \/ RecvReinsert(t)

\* every thread may send and receive
Next ==
    \/ \E t \in Threads :
          \/ Connecting(t)
          \/ Send(t, {None}, MaxFrames)
          \/ Cancel(t, {None}, MaxFrames)
          \/ Sending(t)
          \/ Receive(t)
          \/ Pumping(t)
          \/ Resetting(t)
    \/ ServerNegotiates({Some(AES_128_GCM)})
    \/ ServerAnswers

Spec == Init /\ [][Next]_vars

\* the send side alone: every thread sends and cancels, in the clear and
\* encrypted, and nothing but connect receives
NextSend ==
    \/ \E t \in Threads :
          \/ Connecting(t)
          \/ Send(t, {None, Some(EncryptingSession)}, MaxSends)
          \/ Cancel(t, {None, Some(EncryptingSession)}, MaxSends)
          \/ Sending(t)
          \/ Pumping(t)
    \/ ServerNegotiates({Some(AES_128_GCM)})

SpecSend == Init /\ [][NextSend]_vars

\* framing: one thread sends with every kind of session, under every
\* negotiated dialect and cipher
NextFraming ==
    \/ \E t \in {"t1"} :
          \/ Connecting(t)
          \/ Send(t, SessionArgs, MaxFrames)
          \/ Cancel(t, SessionArgs, MaxFrames)
          \/ Sending(t)
          \/ Pumping(t)
    \/ ServerNegotiates({None, Some(AES_128_GCM)})

SpecFraming == Init /\ [][NextFraming]_vars

\* the sessions of the receive side
SecureSessions == {Some(SigningSession), Some(EncryptingSession)}

\* answers to requests nobody sent
Strays == {h \in Junk : h.type = "header" /\ ~h.signed}

\* the receive side with sessions: requests go out signed or encrypted and
\* the answers come back in every form
NextSecure ==
    \/ \E t \in {"t1"} :
          \/ Connecting(t)
          \/ Send(t, SecureSessions, MaxSecure)
          \/ SetupSend(t, {Some(SigningSession)}, MaxSecure)
          \/ Sending(t)
          \/ Receive(t)
          \/ Pumping(t)
    \/ \E session \in {SigningSession, EncryptingSession} : RegisterSession(session)
    \/ ServerNegotiates({Some(AES_128_GCM)})
    \/ \E i \in 1..Len(sent), form \in Forms : ServerSecure(i, form)

SpecSecure == Init /\ [][NextSecure]_vars

\* the receive side with stray answers: requests without a session, their
\* answers, and answers to requests nobody sent
NextStray ==
    \/ \E t \in {"t1"} :
          \/ Connecting(t)
          \/ Send(t, {None}, MaxFrames)
          \/ Sending(t)
          \/ Receive(t)
          \/ Pumping(t)
    \/ ServerNegotiates({Some(AES_128_GCM)})
    \/ \E i \in 1..Len(sent), status \in {STATUS_SUCCESS, STATUS_ACCESS_DENIED} :
          ServerRespond(i, status)
    \/ \E item \in Strays : ServerJunk(item)

SpecStray == Init /\ [][NextStray]_vars

\* negotiation: the application connects, pinned or not, and connects
\* again, while it sends; the server settles in the SMB1 phase or in the
\* SMB2 phase, on a dialect below 3.1.1 or on 3.1.1, or answers the SMB2
\* NEGOTIATE with the wildcard again
NextConnect ==
    \/ \E t \in Threads :
          \/ ConnectAny(t, MaxConnects)
          \/ Negotiating(t)
          \/ Send(t, {None}, MaxSends)
          \/ Sending(t)
          \/ Pumping(t)
    \/ \E revision \in {SMB_2_0_2, SMB_2_WILDCARD} : ServerSmb1Reply(revision)
    \/ \E i \in 1..Len(sent), revision \in {SMB_3_0_2, SMB_3_1_1, SMB_2_WILDCARD} :
          ServerNegotiateReply(i, revision, Some(AES_128_GCM))

SpecConnect == Init /\ [][NextConnect]_vars

--------------------------------------------------------------------------
(* Message ids on the wire *)

\* the SMB2 frames the transport was handed, in order, as their headers
Wire == [i \in 1..Cardinality(Smb2Frames) |->
            Inner(sent[CHOOSE k \in Smb2Frames :
                          Cardinality({j \in Smb2Frames : j <= k}) = i])]

\* the message ids of the frames that are not cancels, in wire order
WireIds ==
    LET allocated == SelectSeq(Wire, LAMBDA h : h.command # "SMB2_CANCEL")
    IN  [i \in 1..Len(allocated) |-> allocated[i].message_id]

\* C1: whatever the interleaving of the senders, the message ids of the
\* frames other than cancels reach the transport strictly increasing and
\* consecutive: each is the one before it plus one.
C1_WireIdsConsecutive ==
    \A i \in 1..(Len(WireIds) - 1) : WireIds[i + 1] = WireIds[i] + 1

\* two ids are on the wire while one sender holds the lock with the next id
\* and another waits for the lock
C1_Witness ==
    /\ Len(WireIds) >= 2
    /\ \E t, u \in Threads :
          /\ pc[t] = "send_transport" /\ loc[t].command # "SMB2_CANCEL"
          /\ pc[u] = "send_lock" /\ loc[u].command # "SMB2_CANCEL"

--------------------------------------------------------------------------
(* Routing responses to receivers *)

Idle == \A t \in Threads : pc[t] = "idle"

\* the ids of the requests on the wire that the server answers
RequestIds ==
    {Inner(sent[i]).message_id :
        i \in {k \in Smb2Frames : Inner(sent[k]).command # "SMB2_CANCEL"}}

CancelSent == \E i \in Smb2Frames : Inner(sent[i]).command = "SMB2_CANCEL"

\* receive(m) has handed the caller m's response, or its error status
Observed(m) == Count(returned, m) >= 1 \/ m \in failed

\* a receive of m holds a response and has yet to leave
InHand(m) ==
    \E t \in Threads :
       /\ pc[t] \in {"recv_del", "recv_reset", "recv_reinsert", "neg_received",
                     "populate"}
       /\ loc[t].message_id = m

\* C2: responses go by message id, not by arrival order: the response a
\* receive(m) holds carries message id m, and once every request on the wire
\* (two of them, no cancel among the frames) has had its success returned
\* and no call is running, outstanding_requests is empty.
C2_RoutedById ==
    /\ \A t \in Threads :
          pc[t] \in {"recv_del", "recv_reset", "recv_reinsert"}
          => loc[t].response[1].message_id = loc[t].message_id
    /\ ( /\ Idle
         /\ ~CancelSent
         /\ Cardinality(RequestIds) >= 2
         /\ \A m \in RequestIds : Count(returned, m) >= 1 )
       => DOMAIN outstanding_requests = {}

\* C3: no receive ends with STATUS_PENDING as its result, returned or raised.
C3_PendingNeverObserved ==
    ~( /\ outcome.op = "receive"
       /\ outcome.kind \in {"return", "raise"}
       /\ outcome.status = STATUS_PENDING )

\* the requests the server answered with STATUS_PENDING and then with
\* STATUS_SUCCESS
PendingThenSuccess ==
    {m \in server.pended :
        m \in DOMAIN server.final /\ server.final[m] = STATUS_SUCCESS}

\* C4: for a request answered with STATUS_PENDING and then STATUS_SUCCESS,
\* the entry stays in outstanding_requests until the success is returned,
\* the success is returned once and no more, and after it is returned the
\* table has no entry for the request.
C4_PendingThenSuccessOnce ==
    \A m \in PendingThenSuccess :
       /\ ~Observed(m) /\ ~InHand(m) => InTable(m)
       /\ Count(returned, m) <= 1
       /\ Count(returned, m) >= 1 => ~InTable(m)

\* C5: the entry of a request exists from the moment its frame is on the
\* wire until receive has its final response, and is gone once receive has
\* observed a final response, whether the status is success or an error.
C5_EntryLifetime ==
    \A m \in RequestIds :
       /\ ~Observed(m) /\ ~InHand(m) => InTable(m)
       /\ Observed(m) /\ ~InHand(m) => ~InTable(m)

\* the final response to m is on its way to receive(m): in the queue, in the
\* hands of a pump that has yet to store it, or in the slot of m's request
FinalInFlight(m) ==
    \/ \E i \in 1..Len(message_buffer) :
          /\ message_buffer[i].type = "header"
          /\ message_buffer[i].message_id = m
          /\ message_buffer[i].status # STATUS_PENDING
    \/ \E t \in Threads :
          /\ pc[t] = "pump_store"
          /\ loc[t].message[1].message_id = m
          /\ loc[t].message[1].status # STATUS_PENDING
    \/ /\ InTable(m)
       /\ requests[outstanding_requests[m]].response # None
       /\ requests[outstanding_requests[m]].response[1].status # STATUS_PENDING

\* C6: no routed response is lost: the final response the server has
\* delivered for a request is on its way to receive(m), or in the hands of
\* receive(m), or has been handed to its caller.
C6_NoResponseLost ==
    \A m \in DOMAIN server.final :
       \/ FinalInFlight(m)
       \/ \E t \in Threads :
             /\ pc[t] \in {"recv_del", "neg_received", "populate"}
             /\ loc[t].message_id = m
       \/ Observed(m)

\* the failures of the pump
PumpErrors ==
    {"InvalidHeader", "UnknownMessageId", "InvalidTransformFlags",
     "SessionNotFound", "SignatureMismatch"}

PumpFailed(o) ==
    o.op = "receive" /\ o.kind = "raise" /\ o.exc \in PumpErrors

\* C7: a failure of the pump is latched: the receive that ends next after a
\* receive failed with a pump error fails with the same error.
C7_PumpErrorLatched ==
    [][ ( /\ PumpFailed(outcome)
          /\ outcome' # outcome
          /\ outcome'.op = "receive" )
        => PumpFailed(outcome') /\ outcome'.exc = outcome.exc ]_vars

--------------------------------------------------------------------------
(* SMB2_CANCEL and the sequence window *)

\* C8: the frame of an SMB2_CANCEL carries the message id of the request it
\* cancels, and the cancel has no entry of its own in outstanding_requests
\* under another id.
C8_CancelReusesTargetId ==
    \A t \in Threads :
       pc[t] = "send_transport" /\ loc[t].command = "SMB2_CANCEL"
       => /\ Inner(loc[t].header[1]).message_id = loc[t].target
          /\ \A m \in DOMAIN outstanding_requests \ {loc[t].target} :
                Inner(requests[outstanding_requests[m]].message).command
                   # "SMB2_CANCEL"

\* thread t takes a step of a send of an SMB2_CANCEL
CancelStep(t) ==
    /\ pc'[t] # pc[t]
    /\ \/ pc[t] \in SendPcs /\ loc[t].command = "SMB2_CANCEL"
       \/ pc'[t] \in SendPcs /\ loc'[t].command = "SMB2_CANCEL"

\* frames before the i-th that took a sequence number: every one but a cancel
AllocatedBefore(i) ==
    {j \in 1..(i - 1) :
        sent[j].type = "smb1" \/ Inner(sent[j]).command # "SMB2_CANCEL"}

\* C9: no step of a send of an SMB2_CANCEL changes sequence_window, and the
\* id of every other frame on the wire is the number of frames before it
\* that are not cancels: the ids are what they would be had no cancel been
\* sent.
C9_CancelKeepsWindow ==
    /\ [][\A t \in Threads : CancelStep(t) => sequence_window' = sequence_window]_vars
    /\ [](\A i \in Smb2Frames :
             Inner(sent[i]).command # "SMB2_CANCEL"
             => Inner(sent[i]).message_id = Cardinality(AllocatedBefore(i)))

\* a cancel went out between two requests
C9_Witness ==
    \E i, j, k \in Smb2Frames :
       /\ i < j /\ j < k
       /\ Inner(sent[i]).command = "SMB2_READ"
       /\ Inner(sent[j]).command = "SMB2_CANCEL"
       /\ Inner(sent[k]).command = "SMB2_READ"

--------------------------------------------------------------------------
(* Encrypting and signing outbound frames *)

\* the frames sent with a session
SessionFrames == {i \in Smb2Frames : Inner(sent[i]).session_id # 0}

FrameSession(i) == SessionOf(Inner(sent[i]).session_id)

Encrypted(frame) ==
    /\ frame.type = "transform"
    /\ ~frame.data.signed
    /\ frame.data.signature = None

Signed(frame, session) ==
    /\ frame.type = "header"
    /\ frame.signed
    /\ frame.signature = GenerateSignature(frame, session, dialect[1])

Plain(frame) ==
    /\ frame.type = "header"
    /\ ~frame.signed
    /\ frame.signature = None

\* C10 as stated: a session with encrypt_data gets a TRANSFORM_HEADER around
\* an unsigned header; else a session with signing_required gets a signed
\* plain header; no frame is both encrypted and signed.
C10_AsStated ==
    \A i \in SessionFrames :
       /\ FrameSession(i).encrypt_data => Encrypted(sent[i])
       /\ ~FrameSession(i).encrypt_data /\ FrameSession(i).signing_required
          => Signed(sent[i], FrameSession(i))
       /\ sent[i].type = "transform" => ~sent[i].data.signed

\* C10: a session with encrypt_data and an encryption key gets a
\* TRANSFORM_HEADER around an unsigned header; else a session with
\* signing_required and a signing key gets a signed plain header; else the
\* frame goes out plain.  No frame is both encrypted and signed.
C10_EncryptOrSign ==
    \A i \in SessionFrames :
       LET session == FrameSession(i)
           encrypts == session.encrypt_data /\ Truthy(session.encryption_key)
           signs == session.signing_required /\ Truthy(session.signing_key)
       IN  /\ encrypts => Encrypted(sent[i])
           /\ ~encrypts /\ signs => Signed(sent[i], session)
           /\ ~encrypts /\ ~signs => Plain(sent[i])
           /\ sent[i].type = "transform" => ~sent[i].data.signed

\* an encrypted frame and a signed frame have gone out
C10_Witness ==
    \E i, j \in SessionFrames :
       /\ FrameSession(i) = EncryptingSession /\ sent[i].type = "transform"
       /\ FrameSession(j) = SigningSession /\ sent[j].signed

--------------------------------------------------------------------------
(* The connection mutex *)

SendRunning == \E t \in Threads : pc[t] \in SendPcs

\* C20: whenever no send is in progress the mutex is free: a send that took
\* the mutex has released it by the time it ends, however it ends.
C20_LockFreeOutsideSend ==
    ~SendRunning => lock = None

\* thread t takes the step
Steps(t) == pc'[t] # pc[t] \/ loc'[t] # loc[t]

TablesChange ==
    \/ session_table' # session_table
    \/ outstanding_requests' # outstanding_requests
    \/ sequence_window' # sequence_window
    \/ preauth_integrity_hash_value' # preauth_integrity_hash_value

\* C18: a step that changes session_table, outstanding_requests,
\* sequence_window or preauth_integrity_hash_value is taken by a thread that
\* holds the mutex, before or after the step.
C18_TablesUnderMutex ==
    [][\A t \in Threads :
          Steps(t) /\ TablesChange => lock = Some(t) \/ lock' = Some(t)]_vars

--------------------------------------------------------------------------
(* Checking and routing inbound messages *)

\* thread t's pump takes the next item off the queue
PumpTakes(t) ==
    pc[t] = "pump_get" /\ message_buffer # <<>> /\ Steps(t)

\* the pump gets a header out of the item
Readable(item) ==
    \/ item.type = "header"
    \/ item.type = "transform" /\ DecryptError(item) = ""

Opened(item) == IF item.type = "transform" THEN Decrypt(item) ELSE item

PumpFails(t) ==
    pc'[t] = "idle" /\ outcome'.kind = "raise" /\ requests' = requests

\* the responses attached to requests, with the request each is attached to
Attached == {r \in 1..Len(requests) : requests[r].response # None}

\* C19: a message whose id has no entry in outstanding_requests makes the
\* pump fail and changes no response slot, and no request has a response
\* attached that carries another message id than the request.
C19_UnknownIdFails ==
    /\ [](\A r \in Attached :
             requests[r].response[1].message_id
                = Inner(requests[r].message).message_id)
    /\ [][\A t \in Threads :
             ( /\ PumpTakes(t)
               /\ Readable(Head(message_buffer))
               /\ ~InTable(Opened(Head(message_buffer)).message_id) )
             => PumpFails(t) /\ outcome'.exc \in PumpErrors]_vars

\* the pump failed on an unknown id while a response was attached to an
\* outstanding request
C19_Witness ==
    /\ outcome.op = "receive" /\ outcome.exc = "UnknownMessageId"
    /\ \E m \in DOMAIN outstanding_requests :
          requests[outstanding_requests[m]].response # None

\* _verify compares the signature of these messages
MustVerify(message) ==
    /\ message.signed
    /\ message.message_id # UNSOLICITED_ID
    /\ message.command # "SMB2_SESSION_SETUP"

Verifies(message) ==
    /\ message.session_id \in DOMAIN session_table
    /\ message.signature =
          GenerateSignature(message, session_table[message.session_id], dialect[1])

\* C17: every signed response attached to a request, other than one with the
\* unsolicited id or of a session setup, carries the signature recomputed
\* with the signing key of its session in session_table; a message that does
\* not, or whose session is not in the table, makes the pump fail.
C17_SignatureChecked ==
    /\ [](\A r \in Attached :
             MustVerify(requests[r].response[1]) => Verifies(requests[r].response[1]))
    /\ [][\A t \in Threads :
             ( /\ PumpTakes(t)
               /\ Readable(Head(message_buffer))
               /\ MustVerify(Opened(Head(message_buffer)))
               /\ ~Verifies(Opened(Head(message_buffer))) )
             => /\ PumpFails(t)
                /\ outcome'.exc \in {"SessionNotFound", "SignatureMismatch"}]_vars

\* the pump failed on a signature while the request waits with an empty slot
C17_Witness ==
    /\ outcome.op = "receive" /\ outcome.exc = "SignatureMismatch"
    /\ \E m \in DOMAIN outstanding_requests :
          requests[outstanding_requests[m]].response = None

\* C11: a TRANSFORM_HEADER that decrypts is routed to its request with no
\* look at the SIGNED flag and the signature of the header inside.
C11_InnerSignedIgnored ==
    [][\A t \in Threads :
          ( /\ PumpTakes(t)
            /\ Head(message_buffer).type = "transform"
            /\ DecryptError(Head(message_buffer)) = ""
            /\ InTable(Head(message_buffer).data.message_id) )
          => /\ pc'[t] = "pump_store"
             /\ loc'[t].message = Some(Decrypt(Head(message_buffer)))]_vars

--------------------------------------------------------------------------
(* Negotiation *)

\* thread t's connect returns
ConnectReturns(t) ==
    pc[t] = "populate" /\ pc'[t] = "idle" /\ outcome'.kind = "return"

\* C12: after every successful connect preauth_integrity_hash_value holds
\* two elements, the SMB2 NEGOTIATE request and then its response.
C12_PreauthRequestResponse ==
    [][\A t \in Threads :
          ConnectReturns(t)
          => /\ Len(preauth_integrity_hash_value') = 2
             /\ preauth_integrity_hash_value'[1].command = "SMB2_NEGOTIATE"
             /\ ~IsNegotiateResponse(preauth_integrity_hash_value'[1])
             /\ IsNegotiateResponse(preauth_integrity_hash_value'[2])
             /\ preauth_integrity_hash_value'[2].message_id
                   = preauth_integrity_hash_value'[1].message_id]_vars

\* C13: once dialect is set no connect call succeeds and dialect keeps its
\* value.
C13_ConnectOnlyFresh ==
    [][dialect # None
       => /\ dialect' = dialect
          /\ \A t \in Threads : ~ConnectReturns(t)]_vars

\* thread t's connect goes on to the SMB2 NEGOTIATE
Phase2Starts(t) ==
    /\ pc[t] = "smb1_wait"
    /\ pc'[t] = "send_lock"
    /\ loc'[t].command = "SMB2_NEGOTIATE"

\* C14: after the wildcard the SMB2 NEGOTIATE of connect(d) offers the
\* dialects [d], in an SMB2NegotiateRequest when d < 3.1.1; all five
\* dialects are offered only when no dialect was pinned.
C14_PinnedOffer ==
    [][\A t \in Threads :
          Phase2Starts(t)
          => LET pin == loc[t].pin
                 offer == loc'[t].header[1].data[1]
             IN  IF pin = None
                 THEN offer.dialects = AllDialects
                 ELSE /\ offer.dialects = <<pin[1]>>
                      /\ pin[1] < SMB_3_1_1 => offer.request = "SMB2NegotiateRequest"]_vars

\* C15: low <= high in every state; a send that takes a message id takes
\* high and moves low and high on by one, and so does the allocation in
\* connect.
C15_WindowOrdered ==
    /\ [](sequence_window.low <= sequence_window.high)
    /\ [][\A t \in Threads :
             /\ ( /\ pc[t] = "send_lock"
                  /\ pc'[t] = "send_transport"
                  /\ Allocates(loc[t].command) )
                => /\ loc'[t].message_id = sequence_window.high
                   /\ sequence_window' = [low |-> sequence_window.low + 1,
                                          high |-> sequence_window.high + 1]
             /\ (pc[t] = "smb1_high" /\ pc'[t] = "smb1_wait")
                => /\ sequence_window'.high = sequence_window.high + 1
                   /\ sequence_window'.low = sequence_window'.high]_vars

\* thread t's connect takes the answer to its SMB1 NEGOTIATE
Smb1Answered(t) ==
    /\ pc[t] = "smb1_wait"
    /\ Steps(t)
    /\ IsNegotiateResponse(Head(message_buffer))

\* C16: connect sends the SMB2 NEGOTIATE exactly when the SMB1 response
\* carries the wildcard; with another dialect the connection is populated
\* from the SMB1 response: dialect is its revision, supports_file_leasing
\* is unset below 2.1.0 and cipher_id is unset below 3.1.1.
C16_Phase2OnWildcard ==
    /\ [][\A t \in Threads :
             Smb1Answered(t)
             => LET revision == Head(message_buffer).data[1].dialect_revision
                IN  /\ Phase2Starts(t) <=> revision = SMB_2_WILDCARD
                    /\ revision # SMB_2_WILDCARD
                       => /\ pc'[t] = "populate"
                          /\ loc'[t].response = Some(Head(message_buffer))]_vars
    /\ [][\A t \in Threads :
             ( /\ pc[t] = "populate"
               /\ Steps(t)
               /\ loc[t].header = None )
             => LET revision == loc[t].response[1].data[1].dialect_revision
                IN  /\ dialect' = Some(revision)
                    /\ revision < SMB_2_1_0 => supports_file_leasing' = None
                    /\ revision < SMB_3_1_1 => cipher_id' = None]_vars

\* the elements of a sequence
Range(seq) == {seq[k] : k \in DOMAIN seq}

\* the dialects thread t's connect put on the wire: "SMB 2.002" in the SMB1
\* NEGOTIATE when it went no further, else the list of its SMB2 NEGOTIATE
Offered(t) ==
    IF loc[t].header = None
    THEN {SMB_2_0_2}
    ELSE Range(Inner(loc[t].header[1]).data[1].dialects)

\* C21: when connect returns, dialect is a dialect the client offered, and
\* not the wildcard, whatever revision the server's responses carry.
C21_DialectWasOffered ==
    [][\A t \in Threads :
          ConnectReturns(t)
          => /\ dialect' # None
             /\ dialect'[1] # SMB_2_WILDCARD
             /\ dialect'[1] \in Offered(t)]_vars

\* C22: a plain response without the SIGNED flag, of a session in
\* session_table that has signing_required set, is not attached to a
\* request.
C22_UnsignedRefused ==
    [][\A t \in Threads :
          ( /\ PumpTakes(t)
            /\ Head(message_buffer).type = "header"
            /\ ~Head(message_buffer).signed
            /\ Head(message_buffer).session_id \in DOMAIN session_table
            /\ session_table[Head(message_buffer).session_id].signing_required )
          => pc'[t] # "pump_store"]_vars

==========================================================================
